---- MODULE Spec2Model ----
(***************************************************************************)
(* Beacon derivation of gateway-rs (beacon/src/beacon.rs).                 *)
(*                                                                         *)
(* Beacon::new is modelled statement by statement: the match on the        *)
(* remote entropy's version, the Sha256 of the two entropies, the seeding  *)
(* of the generator, the three draws (frequency, payload size, datarate)   *)
(* and the construction of the Beacon.  A caller invokes it again and      *)
(* again, with the same or with new arguments, and may turn a Beacon into  *)
(* a report (TryFrom<Beacon>), which reads the wall clock.                 *)
(*                                                                         *)
(* Sha256 and ChaCha12Rng are external crates.  They are modelled by what  *)
(* the derivation relies on: Sha256 is a deterministic function from the   *)
(* absorbed bytes to DigestLen bytes, ChaCha12Rng a deterministic word     *)
(* stream fixed by its seed, and the uniform sampling of `rand` the        *)
(* widening-multiply rejection loop over that stream.  Words are 16 bits     *)
(* wide so that every product stays inside TLC's integers.                 *)
(***************************************************************************)
EXTENDS Integers, Sequences, FiniteSets, TLC

\* ------------------------------------------------------------- bounds
MaxVersion == 2
MaxRegionParams == 2
MaxClock == 1

\* ---------------------------------------------------------- constants
MAX_BEACON_V0_PAYLOAD_SIZE == 10
MIN_BEACON_V0_PAYLOAD_SIZE == 5
\* Mutants of BEACON_DATA_RATES: the unsupported rates listed too; no rate.
BEACON_DATA_RATES_WithSf12 ==
  <<"Sf7bw125", "Sf8bw125", "Sf9bw125", "Sf10bw125", "Sf11bw125", "Sf12bw125">>
BEACON_DATA_RATES_Empty == <<>>
BEACON_DATA_RATES == <<"Sf7bw125", "Sf8bw125", "Sf9bw125", "Sf10bw125">>
DigestLen == 32
WordMod == 2 ^ 16

\* ------------------------------------------------------------- inputs
EntropyData == {<<0, 0, 0, 0>>, <<255, 255, 255, 255>>, <<222, 173, 190, 239>>}
Timestamps == {0, 1}
Entropy == [version : 0 .. MaxVersion, data : EntropyData, timestamp : Timestamps]
Frequencies == {903900000, 904300000}
BlockchainRegionParamV1 == [channel_frequency : Frequencies]
RegionParamLists ==
  UNION {[1 .. n -> BlockchainRegionParamV1] : n \in 0 .. MaxRegionParams}

\* ------------------------------------------------------------ results
NoResult == [kind |-> "None"]
Err(e) == [kind |-> "Err", error |-> e]
Ok(v) == [kind |-> "Ok", value |-> v]
NoRng == [state |-> 0, words |-> 0, seeded |-> FALSE]

\* ------------------------------------------------- Entropy::digest
RECURSIVE ToLeBytes(_, _)
ToLeBytes(n, k) ==
  IF k = 0 THEN <<>> ELSE <<n % 256>> \o ToLeBytes(n \div 256, k - 1)

\* The bytes an entropy feeds the hasher: its data, then its timestamp.
EntropyDigest(e) == e.data \o ToLeBytes(e.timestamp, 8)

\* ---------------------------------------------------------- Sha256
Sha256New == [h |-> 27145]

\* Sha256::update: absorbs the bytes in order.  The sequence is split in
\* halves, the first half absorbed before the second is looked at, only to
\* keep the evaluation shallow.
RECURSIVE Sha256Update(_, _)
Sha256Update(hasher, bytes) ==
  IF Len(bytes) = 0 THEN hasher
  ELSE IF Len(bytes) = 1
       THEN [h |-> (hasher.h * 33 + bytes[1] + 1) % WordMod]
       ELSE LET k == Len(bytes) \div 2
                first == Sha256Update(hasher, SubSeq(bytes, 1, k))
            IN  IF first.h < WordMod
                THEN Sha256Update(first, SubSeq(bytes, k + 1, Len(bytes)))
                ELSE first

\* Sha256::finalize: DigestLen bytes fixed by what was absorbed.
Sha256Finalize(hasher) ==
  [i \in 1 .. DigestLen |->
     (((hasher.h + i) * 25173 + 13849) % WordMod) \div 256]

\* --------------------------------------------------------- ChaCha12Rng
RECURSIVE FoldSeed(_, _)
FoldSeed(acc, bytes) ==
  IF Len(bytes) = 0 THEN acc
  ELSE IF Len(bytes) = 1
       THEN (acc * 251 + bytes[1]) % WordMod
       ELSE LET k == Len(bytes) \div 2
                first == FoldSeed(acc, SubSeq(bytes, 1, k))
            IN  IF first < WordMod
                THEN FoldSeed(first, SubSeq(bytes, k + 1, Len(bytes)))
                ELSE first

FromSeed(seed) == [state |-> FoldSeed(0, seed), words |-> 0, seeded |-> TRUE]

\* One word of the stream: the generator after it, and the word.
NextWord(rng) ==
  LET s == (rng.state * 25173 + 13849) % WordMod
  IN  [rng |-> [rng EXCEPT !.state = s, !.words = @ + 1], v |-> s]

\* ------------------------------------------------- rand: uniform sampling
RECURSIVE ShiftToTop(_)
ShiftToTop(range) ==
  IF range >= WordMod \div 2 THEN range ELSE ShiftToTop(2 * range)

Zone(range) == ShiftToTop(range) - 1

\* UniformInt::sample_single_inclusive(low, low + range - 1).
RECURSIVE SampleSingle(_, _, _)
SampleSingle(rng, low, range) ==
  LET w  == NextWord(rng)
      m  == w.v * range
      hi == m \div WordMod
      lo == m % WordMod
  IN  IF lo <= Zone(range)
      THEN [rng |-> w.rng, value |-> low + hi]
      ELSE SampleSingle(w.rng, low, range)

GenRangeInclusive(rng, low, high) == SampleSingle(rng, low, high - low + 1)

\* SliceRandom::choose: None on an empty slice (the generator untouched),
\* else the element at a uniform index in [0, len).
Choose(slice, rng) ==
  IF slice = <<>>
  THEN [some |-> FALSE, rng |-> rng]
  ELSE LET s == SampleSingle(rng, 0, Len(slice))
       IN  [some |-> TRUE, rng |-> s.rng, index |-> s.value,
            item |-> slice[s.value + 1]]

\* --------------------------------------------------------------- state
VARIABLES
  remote_entropy, local_entropy, region_params,  \* the arguments of the call
  pc,            \* the statement Beacon::new is at
  data,          \* the digest, later truncated
  rng,           \* the ChaCha12Rng
  frequency, payload_size, datarate,
  draws,         \* the draws made from rng so far, in order
  result,        \* what Beacon::new returned
  prev,          \* what the previous call with these arguments returned
  report,        \* the IotBeaconReportReqV1 made of the Beacon
  now            \* the wall clock, relative to UNIX_EPOCH

vars == <<remote_entropy, local_entropy, region_params, pc, data, rng,
          frequency, payload_size, datarate, draws, result, prev, report, now>>

args == <<remote_entropy, local_entropy, region_params>>

\* Before the first call: no arguments yet.
NoEntropy == [version |-> 0, data |-> <<>>, timestamp |-> 0]

Init ==
  /\ remote_entropy = NoEntropy
  /\ local_entropy = NoEntropy
  /\ region_params = <<>>
  /\ pc = "idle"
  /\ data = <<>>
  /\ rng = NoRng
  /\ frequency = 0
  /\ payload_size = 0
  /\ datarate = "none"
  /\ draws = <<>>
  /\ result = NoResult
  /\ prev = NoResult
  /\ report = NoResult
  /\ now = -1

\* Mutant of SupportedVersions: the arm reads `0 | 1 | 2`.
SupportedVersionsWithTwo == {0, 1, 2}

\* The versions the match arm `0 | 1` accepts.
SupportedVersions == {0, 1}

\* Mutant of Successor: the payload size is drawn before the frequency.
SuccessorSizeFirst(step) ==
  CASE step = "match" -> "digest"
    [] step = "digest" -> "seed"
    [] step = "seed" -> "payload_size"
    [] step = "payload_size" -> "frequency"
    [] step = "frequency" -> "datarate"
    [] step = "datarate" -> "construct"
    [] step = "construct" -> "done"

\* The order of the statements after the match.
Successor(step) ==
  CASE step = "match" -> "digest"
    [] step = "digest" -> "seed"
    [] step = "seed" -> "frequency"
    [] step = "frequency" -> "payload_size"
    [] step = "payload_size" -> "datarate"
    [] step = "datarate" -> "construct"
    [] step = "construct" -> "done"

\* match remote_entropy.version { 0 | 1 => ..., _ => Err(invalid_version) }
Match ==
  /\ pc = "match"
  /\ IF remote_entropy.version \in SupportedVersions
     THEN /\ pc' = Successor("match")
          /\ result' = result
     ELSE /\ pc' = "done"
          /\ result' = Err("InvalidVersion")
  /\ UNCHANGED <<args, data, rng, frequency, payload_size, datarate, draws,
                 prev, report, now>>

\* The Sha256 of the remote, then the local entropy.
MixingDigest(remote, local) ==
  Sha256Finalize(
    Sha256Update(Sha256Update(Sha256New, EntropyDigest(remote)),
                 EntropyDigest(local)))

Digest ==
  /\ pc = "digest"
  /\ data' = MixingDigest(remote_entropy, local_entropy)
  /\ pc' = Successor("digest")
  /\ UNCHANGED <<args, rng, frequency, payload_size, datarate, draws, result,
                 prev, report, now>>

\* Mutant of Seed: the generator is seeded from the wall clock.
SeedFromClock ==
  /\ pc = "seed"
  /\ rng' = FromSeed(ToLeBytes(now + 1, DigestLen))
  /\ pc' = Successor("seed")
  /\ UNCHANGED <<args, data, frequency, payload_size, datarate, draws, result,
                 prev, report, now>>

\* seed.copy_from_slice(&data[0..32]); ChaCha12Rng::from_seed(seed)
Seed ==
  /\ pc = "seed"
  /\ rng' = FromSeed(SubSeq(data, 1, DigestLen))
  /\ pc' = Successor("seed")
  /\ UNCHANGED <<args, data, frequency, payload_size, datarate, draws, result,
                 prev, report, now>>

\* Mutant of RandFrequency: an empty list gives the default frequency
\* instead of an error.
RandFrequencyOrDefault ==
  /\ pc = "frequency"
  /\ LET c == Choose(region_params, rng)
     IN  /\ frequency' = IF c.some THEN c.item.channel_frequency ELSE 0
         /\ rng' = c.rng
         /\ draws' = IF c.some
                     THEN Append(draws, [what |-> "frequency", value |-> c.index])
                     ELSE draws
  /\ pc' = Successor("frequency")
  /\ UNCHANGED <<args, data, payload_size, datarate, result, prev, report, now>>

\* Mutant of RandFrequency: the draw is made, the first entry is taken.
RandFrequencyFirst ==
  /\ pc = "frequency"
  /\ LET c == Choose(region_params, rng)
     IN  IF c.some
         THEN /\ frequency' = region_params[1].channel_frequency
              /\ rng' = c.rng
              /\ draws' = Append(draws, [what |-> "frequency", value |-> c.index])
              /\ pc' = Successor("frequency")
              /\ result' = result
         ELSE /\ result' = Err("NoRegionParameters")
              /\ rng' = c.rng
              /\ pc' = "done"
              /\ UNCHANGED <<frequency, draws>>
  /\ UNCHANGED <<args, data, payload_size, datarate, prev, report, now>>

\* rand_frequency(region_params, &mut rng)?
RandFrequency ==
  /\ pc = "frequency"
  /\ LET c == Choose(region_params, rng)
     IN  IF c.some
         THEN /\ frequency' = c.item.channel_frequency
              /\ rng' = c.rng
              /\ draws' = Append(draws, [what |-> "frequency", value |-> c.index])
              /\ pc' = Successor("frequency")
              /\ result' = result
         ELSE /\ result' = Err("NoRegionParameters")
              /\ rng' = c.rng
              /\ pc' = "done"
              /\ UNCHANGED <<frequency, draws>>
  /\ UNCHANGED <<args, data, payload_size, datarate, prev, report, now>>

\* rng.gen_range(MIN_BEACON_V0_PAYLOAD_SIZE..=MAX_BEACON_V0_PAYLOAD_SIZE)
PayloadSize ==
  /\ pc = "payload_size"
  /\ LET s == GenRangeInclusive(rng, MIN_BEACON_V0_PAYLOAD_SIZE,
                                MAX_BEACON_V0_PAYLOAD_SIZE)
     IN  /\ payload_size' = s.value
         /\ rng' = s.rng
         /\ draws' = Append(draws, [what |-> "payload_size", value |-> s.value])
  /\ pc' = Successor("payload_size")
  /\ UNCHANGED <<args, data, frequency, datarate, result, prev, report, now>>

\* rand_data_rate(BEACON_DATA_RATES, &mut rng)?
RandDataRate ==
  /\ pc = "datarate"
  /\ LET c == Choose(BEACON_DATA_RATES, rng)
     IN  IF c.some
         THEN /\ datarate' = c.item
              /\ rng' = c.rng
              /\ draws' = Append(draws, [what |-> "datarate", value |-> c.index])
              /\ pc' = Successor("datarate")
              /\ result' = result
         ELSE /\ result' = Err("NoDataRate")
              /\ rng' = c.rng
              /\ pc' = "done"
              /\ UNCHANGED <<datarate, draws>>
  /\ UNCHANGED <<args, data, frequency, payload_size, prev, report, now>>

\* Mutant of Truncate: the digest is left whole.
TruncateNothing(v, len) == v

\* Vec::truncate: keeps the first len elements, nothing if already shorter.
Truncate(v, len) == IF len < Len(v) THEN SubSeq(v, 1, len) ELSE v

\* Mutant of Construct: the two entropies change places.
ConstructSwapped ==
  /\ pc = "construct"
  /\ data' = Truncate(data, payload_size)
  /\ result' = Ok([data |-> data',
                   frequency |-> frequency,
                   datarate |-> datarate,
                   remote_entropy |-> local_entropy,
                   local_entropy |-> remote_entropy])
  /\ pc' = Successor("construct")
  /\ UNCHANGED <<args, rng, frequency, payload_size, datarate, draws, prev,
                 report, now>>

\* Ok(Self { data: {data.truncate(payload_size); data}, frequency, ... })
Construct ==
  /\ pc = "construct"
  /\ data' = Truncate(data, payload_size)
  /\ result' = Ok([data |-> data',
                   frequency |-> frequency,
                   datarate |-> datarate,
                   remote_entropy |-> remote_entropy,
                   local_entropy |-> local_entropy])
  /\ pc' = Successor("construct")
  /\ UNCHANGED <<args, rng, frequency, payload_size, datarate, draws, prev,
                 report, now>>

\* TryFrom<Beacon> for IotBeaconReportReqV1
TryFromBeacon ==
  /\ pc = "done"
  /\ result.kind = "Ok"
  /\ report = NoResult
  /\ LET v == result.value
     IN  report' =
           IF now < 0
           THEN Err("ClockError")
           ELSE Ok([pub_key |-> <<>>,
                    local_entropy |-> v.local_entropy.data,
                    remote_entropy |-> v.remote_entropy.data,
                    data |-> v.data,
                    frequency |-> v.frequency,
                    channel |-> 0,
                    datarate |-> v.datarate,
                    tmst |-> 0,
                    tx_power |-> 27,
                    timestamp |-> now,
                    signature |-> <<>>])
  /\ UNCHANGED <<args, pc, data, rng, frequency, payload_size, datarate, draws,
                 result, prev, now>>

\* The wall clock advances.
Tick ==
  /\ now < MaxClock
  /\ now' = now + 1
  /\ UNCHANGED <<args, pc, data, rng, frequency, payload_size, datarate, draws,
                 result, prev, report>>

\* The locals of a fresh call of Beacon::new.
Enter ==
  /\ data' = <<>>
  /\ rng' = NoRng
  /\ frequency' = 0
  /\ payload_size' = 0
  /\ datarate' = "none"
  /\ draws' = <<>>
  /\ result' = NoResult
  /\ report' = NoResult

\* The caller calls Beacon::new with arguments of its choice.
Call ==
  /\ pc = "idle"
  /\ remote_entropy' \in Entropy
  /\ local_entropy' \in Entropy
  /\ region_params' \in RegionParamLists
  /\ prev' = NoResult
  /\ pc' = "match"
  /\ Enter
  /\ UNCHANGED now

\* The caller calls Beacon::new again with the same arguments.
Reinvoke ==
  /\ pc = "done"
  /\ prev' = result
  /\ pc' = "match"
  /\ Enter
  /\ UNCHANGED <<args, now>>

\* The caller drops the result and the arguments.
Drop ==
  /\ pc = "done"
  /\ remote_entropy' = NoEntropy
  /\ local_entropy' = NoEntropy
  /\ region_params' = <<>>
  /\ prev' = NoResult
  /\ pc' = "idle"
  /\ Enter
  /\ UNCHANGED now

Next ==
  \/ Match
  \/ Digest
  \/ Seed
  \/ RandFrequency
  \/ PayloadSize
  \/ RandDataRate
  \/ Construct
  \/ TryFromBeacon
  \/ Tick
  \/ Call
  \/ Reinvoke
  \/ Drop

Spec == Init /\ [][Next]_vars

\* ================================================================ claims

Returned == pc = "done"
Succeeded == pc = "done" /\ result.kind = "Ok"
Calling == pc # "idle"
DrawNames == [i \in 1 .. Len(draws) |-> draws[i].what]
IsPrefix(s, t) == Len(s) <= Len(t) /\ s = SubSeq(t, 1, Len(s))

\* C1: a call whose remote_entropy.version is neither 0 nor 1 fails with
\* InvalidVersion whatever the other arguments are, and never draws from the
\* stream: no draw is recorded, no word is taken, no Beacon is produced.
C1_InvalidVersionNoDraw ==
  (Calling /\ remote_entropy.version \notin {0, 1}) =>
    /\ draws = <<>>
    /\ rng.words = 0
    /\ ~rng.seeded
    /\ result.kind # "Ok"
    /\ pc \in {"match", "done"}
    /\ Returned => result = Err("InvalidVersion")

C1_Witness ==
  /\ Returned
  /\ remote_entropy.version = 2
  /\ local_entropy.version = 0
  /\ region_params # <<>>
  /\ result = Err("InvalidVersion")

\* C2: a call whose two entropies differ in version is rejected before any
\* digest is computed and returns no Beacon: every Beacon returned has
\* remote_entropy.version = local_entropy.version.
C2_VersionEquality ==
  Succeeded =>
    result.value.remote_entropy.version = result.value.local_entropy.version

\* C3 as stated: with an empty region_params the call fails with
\* NoRegionParameters for every pair of entropies, whatever their versions.
C3_EmptyRegionAnyEntropy ==
  (Returned /\ region_params = <<>>) => result = Err("NoRegionParameters")

\* C3 as amended: with an empty region_params the call fails with
\* NoRegionParameters for every pair of entropies whose remote version is 0
\* or 1 (any local version, data and timestamps), and with InvalidVersion
\* for every other remote version.
C3_EmptyRegionSupportedVersion ==
  (Returned /\ region_params = <<>>) =>
    result = IF remote_entropy.version \in {0, 1}
             THEN Err("NoRegionParameters")
             ELSE Err("InvalidVersion")

C3_Witness ==
  /\ Returned
  /\ region_params = <<>>
  /\ remote_entropy.version = 1
  /\ local_entropy.version = 2
  /\ result = Err("NoRegionParameters")

\* C4: the data of a returned Beacon is 5 to 10 bytes long, as long as the
\* payload size drawn (the second draw), and is the prefix of that length
\* of the 32-byte mixing digest of (remote_entropy, local_entropy).
C4_PayloadPrefix ==
  Succeeded =>
    LET d == result.value.data
        D == MixingDigest(remote_entropy, local_entropy)
    IN  /\ Len(d) >= 5
        /\ Len(d) <= 10
        /\ Len(draws) >= 2
        /\ draws[2].what = "payload_size"
        /\ Len(d) = draws[2].value
        /\ Len(D) = 32
        /\ d = SubSeq(D, 1, Len(d))

C4_Witness ==
  /\ Succeeded
  /\ Len(result.value.data) = 10
  /\ result.value.data = SubSeq(data, 1, 10)

\* C5: a call repeated with the same remote_entropy, local_entropy and
\* region_params returns what the earlier call returned: the same error, or
\* a Beacon with the same data, frequency and datarate, whatever the wall
\* clock did in between.
Outcome(r) ==
  IF r.kind = "Ok"
  THEN [kind |-> "Ok", data |-> r.value.data, frequency |-> r.value.frequency,
        datarate |-> r.value.datarate]
  ELSE r

C5_Deterministic ==
  (Returned /\ prev # NoResult) => Outcome(result) = Outcome(prev)

C5_Witness ==
  /\ Returned
  /\ prev.kind = "Ok"
  /\ result.kind = "Ok"
  /\ Len(region_params) > 1
  /\ region_params[1] # region_params[2]
  /\ now = MaxClock

\* C6 as stated: the draws are made in the order frequency, payload size,
\* datarate, exactly these three in a successful call; with an empty
\* region_params the call fails at the frequency step, nothing is taken
\* from the stream and neither later draw happens.
DrawOrder == <<"frequency", "payload_size", "datarate">>

C6_DrawOrderFailsAtFrequency ==
  /\ IsPrefix(DrawNames, DrawOrder)
  /\ Succeeded => DrawNames = DrawOrder
  /\ (Calling /\ region_params = <<>>) =>
       /\ draws = <<>>
       /\ rng.words = 0
       /\ Returned => result = Err("NoRegionParameters")

\* C6 as amended: the draws are made in the order frequency, payload size,
\* datarate, exactly these three in a successful call; with an empty
\* region_params the call fails (at the frequency step when the remote
\* version is 0 or 1, at the version match otherwise), nothing is taken
\* from the stream and neither later draw happens.
C6_DrawOrder ==
  /\ IsPrefix(DrawNames, DrawOrder)
  /\ Succeeded => DrawNames = DrawOrder
  /\ (Calling /\ region_params = <<>>) =>
       /\ draws = <<>>
       /\ rng.words = 0
       /\ pc \notin {"payload_size", "datarate", "construct"}
       /\ Returned =>
            /\ result.kind = "Err"
            /\ remote_entropy.version \in {0, 1} =>
                 result = Err("NoRegionParameters")

C6_Witness ==
  /\ Succeeded
  /\ DrawNames = DrawOrder
  /\ rng.words >= 3

\* C7: the datarate of a returned Beacon is one of SF7BW125, SF8BW125,
\* SF9BW125, SF10BW125: the entry of BEACON_DATA_RATES at the index the
\* third draw gave, which lies in [0, 4).
C7_DatarateMember ==
  Succeeded =>
    /\ result.value.datarate \in {"Sf7bw125", "Sf8bw125", "Sf9bw125", "Sf10bw125"}
    /\ Len(draws) = 3
    /\ draws[3].what = "datarate"
    /\ draws[3].value \in 0 .. 3
    /\ result.value.datarate =
         <<"Sf7bw125", "Sf8bw125", "Sf9bw125", "Sf10bw125">>[draws[3].value + 1]

C7_Witness ==
  /\ Succeeded
  /\ draws[3].value = 3
  /\ result.value.datarate = "Sf10bw125"

\* C8: the frequency of a returned Beacon is the channel_frequency of the
\* entry of region_params at the index the first draw gave, which lies in
\* [0, len(region_params)); it is a frequency of the list, and the only
\* entry's when the list has one entry.
C8_FrequencySelected ==
  Succeeded =>
    /\ region_params # <<>>
    /\ Len(draws) >= 1
    /\ draws[1].what = "frequency"
    /\ draws[1].value \in 0 .. Len(region_params) - 1
    /\ result.value.frequency =
         region_params[draws[1].value + 1].channel_frequency
    /\ \E i \in 1 .. Len(region_params) :
         result.value.frequency = region_params[i].channel_frequency
    /\ Len(region_params) = 1 =>
         result.value.frequency = region_params[1].channel_frequency

C8_Witness ==
  /\ Succeeded
  /\ Len(region_params) = 2
  /\ region_params[1] # region_params[2]
  /\ draws[1].value = 1
  /\ result.value.frequency = region_params[2].channel_frequency

\* C9: a returned Beacon carries the remote_entropy argument as its
\* remote_entropy and the local_entropy argument as its local_entropy,
\* unchanged and not swapped, and no step of the derivation changes the
\* entropies or region_params.
C9_EntropiesAttached ==
  /\ [](Succeeded =>
          /\ result.value.remote_entropy = remote_entropy
          /\ result.value.local_entropy = local_entropy)
  /\ [][pc \notin {"idle", "done"} => UNCHANGED args]_vars

C9_Witness ==
  /\ Succeeded
  /\ remote_entropy # local_entropy
  /\ result.value.remote_entropy = remote_entropy
  /\ result.value.local_entropy = local_entropy

====
